---- MODULE Spec2Model ----
(***************************************************************************)
(* Model of the signal dispatch loop of dbusext (subscription.go,          *)
(* connection.go): the goroutine started by Conn.dispatch, the job         *)
(* registry Conn.jobListener, the subscriber slot Conn.subscriber with its *)
(* mutex, and the callers and consumers that run concurrently with it.     *)
(***************************************************************************)
EXTENDS Naturals, Sequences, FiniteSets, TLC

VARIABLES
    queue,             \* ch: buffered signals not yet received by the loop
    closed,            \* ch has been closed (connection shut down)
    emitted,           \* number of signals the bus has put on ch so far
    input,             \* the notification sequence the bus delivers (SpecSeq)
    pending,           \* the part of input not yet put on ch
    pc,                \* position of the dispatch goroutine
    sig,               \* signal: the notification being processed
    unitPath,          \* local unitPath of the current iteration
    reloadState,       \* local reloadState
    unitFilesChanged,  \* local unitFilesChanged
    fetchErr,          \* err != nil after GetUnitPropertiesFromObjectPath
    seen,              \* value of c.subscriber.updateCh read at the nil check
    prevReload,        \* reloadState before the Reloading signal being processed
    lookup,            \* outcome of the GetUnit call of this iteration, if any
    jobs,              \* c.jobListener.jobs: path -> completion channel
    jobSent,           \* per completion channel, the results sent on it
    nextJob,           \* number of completion channels created so far
    updateCh,          \* c.subscriber.updateCh (Nil or the owning subscriber)
    errCh,             \* c.subscriber.errCh
    reloadCh,          \* c.subscriber.reloadCh
    mu,                \* c.subscriber.Mutex: "free", "loop" or "caller"
    cpc,               \* position of the configuring caller
    carg,              \* the channels passed to the SetSubStateSubscriber call running
    updBuf,            \* per subscriber, the buffer of its update channel
    errBuf,            \* per subscriber, the buffer of its error channel
    relBuf,            \* per subscriber, the buffer of its reload channel
    errSent,           \* per subscriber, errors sent on its error channel
    relSent            \* per subscriber, reload events sent on its channel

vars == << queue, closed, emitted, input, pending, pc, sig, unitPath, reloadState,
           unitFilesChanged, fetchErr, seen, prevReload, lookup, jobs, jobSent,
           nextJob,
           updateCh, errCh, reloadCh, mu, cpc, carg,
           updBuf, errBuf, relBuf, errSent, relSent >>

loopLocals == << pc, sig, unitPath, reloadState, unitFilesChanged, fetchErr,
                seen, prevReload, lookup >>
registry   == << jobs, jobSent, nextJob >>
slot       == << updateCh, errCh, reloadCh >>
callerVars == << cpc, carg >>
chans      == << updBuf, errBuf, relBuf, errSent, relSent >>
busVars    == << queue, closed, emitted, input, pending >>

----------------------------------------------------------------------------
(* Bounds *)

MaxSignals == 2     \* signals the bus emits in one behaviour of Spec
MaxJobs == 1        \* calls of watchJob in one behaviour
MaxLen == 4         \* longest notification sequence of SpecSeq

\* capacity of ch; the constant is declared outside subscription.go and
\* connection.go, the model takes a small capacity
signalBuffer == 2

(* Values *)

Nil == 0                     \* a nil channel
Subs == {1, 2}               \* the subscribers that may be configured
JobPaths == {"/j/1", "/j/2"}
Units == {"unit.service"}
Results == {"done", "failed"}
UnitIface == "org.freedesktop.systemd1.Unit"
OtherIface == "org.freedesktop.systemd1.Service"

JobRemoved == "org.freedesktop.systemd1.Manager.JobRemoved"
PropertiesChanged == "org.freedesktop.DBus.Properties.PropertiesChanged"
Reloading == "org.freedesktop.systemd1.Manager.Reloading"
UnitFilesChanged == "org.freedesktop.systemd1.Manager.UnitFilesChanged"
OtherName == "org.freedesktop.systemd1.Manager.UnitNew"

NoPath == ""                 \* dbus.ObjectPath("")
UnitPathOf(u) == "/unit/" \o u

Signal(n, p, u, r, i, a) ==
    [name |-> n, path |-> p, unit |-> u, result |-> r, iface |-> i, active |-> a]

NoSig == Signal("", NoPath, "", "", "", FALSE)

SigJobRemoved(p, u, r) == Signal(JobRemoved, p, u, r, "", FALSE)
SigProps(p, i)         == Signal(PropertiesChanged, p, "", "", i, FALSE)
SigReloading(a)        == Signal(Reloading, "/org/freedesktop/systemd1", "", "", "", a)
SigUnitFilesChanged    == Signal(UnitFilesChanged, "/org/freedesktop/systemd1", "", "", "", FALSE)
SigOther               == Signal(OtherName, "/org/freedesktop/systemd1", "", "", "", FALSE)

Signals ==
    {SigJobRemoved(p, u, r) : p \in JobPaths, u \in Units, r \in Results}
    \cup {SigProps(UnitPathOf(u), i) : u \in Units, i \in {UnitIface, OtherIface}}
    \cup {SigReloading(a) : a \in BOOLEAN}
    \cup {SigUnitFilesChanged, SigOther}

\* the notifications a sequence of SpecSeq is made of
SeqSignals ==
    {SigReloading(TRUE), SigReloading(FALSE), SigUnitFilesChanged, SigOther}
    \cup {SigProps(UnitPathOf(u), UnitIface) : u \in Units}

RECURSIVE SeqsUpTo(_, _)
SeqsUpTo(S, n) ==
    IF n = 0 THEN {<< >>}
    ELSE LET shorter == SeqsUpTo(S, n - 1)
         IN  shorter \cup {Append(q, x) : q \in shorter, x \in S}

(* Channels: capacity of each subscriber's channels.  Subscriber 1 passes  *)
(* an unbuffered update channel that nobody receives from; subscriber 2    *)
(* passes buffered ones.                                                   *)
CapUpd(s) == IF s = 1 THEN 0 ELSE 1
CapErr(s) == 1
CapRel(s) == 1

\* select { case ch <- v: default: } on a channel with buffer buf
HasRoom(ch, buf, cap) == ch # Nil /\ Len(buf) < cap

\* a plain send, ch <- v: the loop waits until the channel has room
SendReadyBlocking(ch, buf, cap) == ch # Nil /\ Len(buf) < cap

\* the default: branch of a select: the loop never waits for room
SendReady(ch, buf, cap) == TRUE

\* the buffer of channel ch among the channels bufs (none for a nil channel)
Buf(bufs, ch) == IF ch = Nil THEN << >> ELSE bufs[ch]

ErrFetch == "fetch failed"
ErrFull == "update channel full"

----------------------------------------------------------------------------
(* Initial states *)

InitCommon ==
    /\ closed = FALSE
    /\ pc = "recv"
    /\ sig = NoSig
    /\ unitPath = NoPath
    /\ reloadState = FALSE
    /\ unitFilesChanged = FALSE
    /\ fetchErr = FALSE
    /\ seen = Nil
    /\ prevReload = FALSE
    /\ lookup = "none"
    /\ jobs = [p \in JobPaths |-> Nil]
    /\ jobSent = [c \in 1..MaxJobs |-> << >>]
    /\ nextJob = 0
    /\ mu = "free"
    /\ cpc = "idle"
    /\ carg = Nil
    /\ updBuf = [s \in Subs |-> << >>]
    /\ errBuf = [s \in Subs |-> << >>]
    /\ relBuf = [s \in Subs |-> << >>]
    /\ errSent = [s \in Subs |-> 0]
    /\ relSent = [s \in Subs |-> 0]

\* NewConnection: empty registry, no subscriber, dispatch started
Init ==
    /\ InitCommon
    /\ queue = << >>
    /\ emitted = 0
    /\ input = << >>
    /\ pending = << >>
    /\ updateCh = Nil
    /\ errCh = Nil
    /\ reloadCh = Nil

\* a subscriber is configured, with or without a reload channel, and the bus
\* is about to deliver a sequence
InitSeq ==
    /\ InitCommon
    /\ queue = << >>
    /\ emitted = 0
    /\ input \in SeqsUpTo(SeqSignals, MaxLen)
    /\ pending = input
    /\ \E s \in Subs : updateCh = s /\ errCh = s /\ reloadCh \in {s, Nil}

----------------------------------------------------------------------------
(* The bus *)

\* the transport puts a signal on ch
Emit ==
    /\ ~closed
    /\ pending = << >>
    /\ input = << >>
    /\ emitted < MaxSignals
    /\ Len(queue) < signalBuffer
    /\ \E s \in Signals : queue' = Append(queue, s)
    /\ emitted' = emitted + 1
    /\ UNCHANGED << closed, input, pending, loopLocals, registry, slot, mu,
                    callerVars, chans >>

\* the transport puts the next signal of the sequence on ch
Feed ==
    /\ ~closed
    /\ pending # << >>
    /\ Len(queue) < signalBuffer
    /\ queue' = Append(queue, Head(pending))
    /\ pending' = Tail(pending)
    /\ emitted' = emitted + 1
    /\ UNCHANGED << closed, input, loopLocals, registry, slot, mu,
                    callerVars, chans >>

\* Conn.Close: closing sigconn closes ch
Close ==
    /\ ~closed
    /\ closed' = TRUE
    /\ UNCHANGED << queue, emitted, input, pending, loopLocals, registry,
                    slot, mu, callerVars, chans >>

----------------------------------------------------------------------------
(* The dispatch goroutine *)

\* back to the top of the for loop
Continue ==
    /\ pc' = "recv"
    /\ sig' = NoSig
    /\ unitPath' = NoPath
    /\ fetchErr' = FALSE
    /\ seen' = Nil
    /\ prevReload' = FALSE

\* the receive without the ok test: the goroutine never returns
LoopRecvNoReturn ==
    /\ pc = "recv"
    /\ queue # << >>
    /\ sig' = Head(queue)
    /\ queue' = Tail(queue)
    /\ pc' = "job"
    /\ lookup' = "none"
    /\ UNCHANGED << closed, emitted, input, pending, unitPath, reloadState,
                    unitFilesChanged, fetchErr, seen, prevReload, registry,
                    slot, mu, callerVars, chans >>

\* the receive takes the newest signal instead of the oldest
LoopRecvNewest ==
    /\ pc = "recv"
    /\ IF queue # << >>
       THEN /\ sig' = queue[Len(queue)]
            /\ queue' = SubSeq(queue, 1, Len(queue) - 1)
            /\ pc' = "job"
       ELSE /\ closed
            /\ pc' = "done"
            /\ UNCHANGED << sig, queue >>
    /\ lookup' = "none"
    /\ UNCHANGED << closed, emitted, input, pending, unitPath, reloadState,
                    unitFilesChanged, fetchErr, seen, prevReload, registry,
                    slot, mu, callerVars, chans >>

\* signal, ok := <-ch; if !ok { return }
LoopRecv ==
    /\ pc = "recv"
    /\ IF queue # << >>
       THEN /\ sig' = Head(queue)
            /\ queue' = Tail(queue)
            /\ pc' = "job"
       ELSE /\ closed
            /\ pc' = "done"
            /\ UNCHANGED << sig, queue >>
    /\ lookup' = "none"
    /\ UNCHANGED << closed, emitted, input, pending, unitPath, reloadState,
                    unitFilesChanged, fetchErr, seen, prevReload, registry,
                    slot, mu, callerVars, chans >>

\* the name test never matches
IsJobRemovedNever(s) == FALSE

IsJobRemoved(s) == s.name = JobRemoved

\* c.jobComplete(signal): resolve the job registered for the signal's path
jobComplete(s) ==
    LET out == jobs[s.path]
    IN  IF out # Nil
        THEN /\ jobSent' = [jobSent EXCEPT ![out] = Append(@, s.result)]
             /\ jobs' = [jobs EXCEPT ![s.path] = Nil]
        ELSE UNCHANGED << jobs, jobSent >>

\* the goroutine returns when no job is registered for the path
LoopJobReturns ==
    /\ pc = "job"
    /\ IF IsJobRemoved(sig)
       THEN jobComplete(sig)
       ELSE UNCHANGED << jobs, jobSent >>
    /\ pc' = IF IsJobRemoved(sig) /\ jobs[sig.path] = Nil THEN "done" ELSE "check"
    /\ UNCHANGED << busVars, sig, unitPath, reloadState, unitFilesChanged,
                    fetchErr, seen, prevReload, lookup, nextJob, slot, mu,
                    callerVars, chans >>

\* if signal.Name == JobRemoved { c.jobComplete(signal) }
LoopJob ==
    /\ pc = "job"
    /\ IF IsJobRemoved(sig)
       THEN jobComplete(sig)
       ELSE UNCHANGED << jobs, jobSent >>
    /\ pc' = "check"
    /\ UNCHANGED << busVars, sig, unitPath, reloadState, unitFilesChanged,
                    fetchErr, seen, prevReload, lookup, nextJob, slot, mu,
                    callerVars, chans >>

\* the condition without unitFilesChanged
ShouldReloadNoFiles(ufc, rs) == ~rs

\* the condition without !reloadState
ShouldReloadAnyState(ufc, rs) == ufc

\* if unitFilesChanged && !reloadState
ShouldReload(ufc, rs) == ufc /\ ~rs

\* the switch with a default branch that takes the signal's own path
CandidateAnyName(s, ok) ==
    IF s.name = JobRemoved
    THEN IF ok THEN UnitPathOf(s.unit) ELSE NoPath
    ELSE IF s.name = PropertiesChanged /\ s.iface # UnitIface
         THEN NoPath
         ELSE s.path

\* the switch without the JobRemoved case
CandidateSkipsJob(s, ok) ==
    IF s.name = PropertiesChanged /\ s.iface = UnitIface
    THEN s.path
    ELSE NoPath

\* a failed GetUnit leaves the signal's own path in unitPath
CandidateFailedUsesPath(s, ok) ==
    IF s.name = JobRemoved
    THEN IF ok THEN UnitPathOf(s.unit) ELSE s.path
    ELSE IF s.name = PropertiesChanged /\ s.iface = UnitIface
         THEN s.path
         ELSE NoPath

\* the PropertiesChanged case without the interface test
CandidateAnyIface(s, ok) ==
    IF s.name = JobRemoved
    THEN IF ok THEN UnitPathOf(s.unit) ELSE NoPath
    ELSE IF s.name = PropertiesChanged
         THEN s.path
         ELSE NoPath

\* the candidate unit path of the switch; ok: the GetUnit call succeeded
Candidate(s, ok) ==
    IF s.name = JobRemoved
    THEN IF ok THEN UnitPathOf(s.unit) ELSE NoPath
    ELSE IF s.name = PropertiesChanged /\ s.iface = UnitIface
         THEN s.path
         ELSE NoPath

\* the Reloading case leaves the signal's path in unitPath
LoopRouteReloadingPath ==
    /\ pc = "check"
    /\ IF updateCh = Nil
       THEN /\ Continue
            /\ UNCHANGED << reloadState, unitFilesChanged >>
       ELSE IF sig.name = Reloading
       THEN /\ reloadState' = sig.active
            /\ IF ShouldReload(unitFilesChanged, sig.active)
               THEN /\ pc' = "reload"
                    /\ seen' = updateCh
                    /\ prevReload' = reloadState
                    /\ UNCHANGED << sig, unitPath, fetchErr >>
               ELSE /\ unitPath' = sig.path
                    /\ pc' = "update"
                    /\ seen' = updateCh
                    /\ UNCHANGED << sig, fetchErr, prevReload >>
            /\ UNCHANGED unitFilesChanged
       ELSE IF sig.name = UnitFilesChanged
       THEN /\ unitFilesChanged' = TRUE
            /\ Continue
            /\ UNCHANGED reloadState
       ELSE /\ \E ok \in BOOLEAN :
                 /\ IF Candidate(sig, ok) = NoPath
                    THEN Continue
                    ELSE /\ unitPath' = Candidate(sig, ok)
                         /\ pc' = "update"
                         /\ seen' = updateCh
                         /\ UNCHANGED << sig, fetchErr, prevReload >>
                 /\ lookup' = IF sig.name # JobRemoved THEN lookup
                               ELSE IF ok THEN "ok" ELSE "failed"
            /\ UNCHANGED << reloadState, unitFilesChanged >>
    /\ sig.name \in {Reloading, UnitFilesChanged} \/ updateCh = Nil
          => UNCHANGED lookup
    /\ UNCHANGED << busVars, registry, slot, mu, callerVars, chans >>

\* the nil check of updateCh (read without the lock) and the switch
LoopRoute ==
    /\ pc = "check"
    /\ IF updateCh = Nil
       THEN /\ Continue
            /\ UNCHANGED << reloadState, unitFilesChanged >>
       ELSE IF sig.name = Reloading
       THEN /\ reloadState' = sig.active
            /\ IF ShouldReload(unitFilesChanged, sig.active)
               THEN /\ pc' = "reload"
                    /\ seen' = updateCh
                    /\ prevReload' = reloadState
                    /\ UNCHANGED << sig, unitPath, fetchErr >>
               ELSE Continue
            /\ UNCHANGED unitFilesChanged
       ELSE IF sig.name = UnitFilesChanged
       THEN /\ unitFilesChanged' = TRUE
            /\ Continue
            /\ UNCHANGED reloadState
       ELSE /\ \E ok \in BOOLEAN :
                 /\ IF Candidate(sig, ok) = NoPath
                    THEN Continue
                    ELSE /\ unitPath' = Candidate(sig, ok)
                         /\ pc' = "update"
                         /\ seen' = updateCh
                         /\ UNCHANGED << sig, fetchErr, prevReload >>
                 /\ lookup' = IF sig.name # JobRemoved THEN lookup
                               ELSE IF ok THEN "ok" ELSE "failed"
            /\ UNCHANGED << reloadState, unitFilesChanged >>
    /\ sig.name \in {Reloading, UnitFilesChanged} \/ updateCh = Nil
          => UNCHANGED lookup
    /\ UNCHANGED << busVars, registry, slot, mu, callerVars, chans >>

\* unitFilesChanged is reset only when the reload event was sent
LoopReloadKeepsFlag ==
    /\ pc = "reload"
    /\ IF HasRoom(reloadCh, Buf(relBuf, reloadCh), CapRel(reloadCh))
       THEN /\ relBuf' = [relBuf EXCEPT ![reloadCh] = Append(@, TRUE)]
            /\ relSent' = [relSent EXCEPT ![reloadCh] = @ + 1]
            /\ unitFilesChanged' = FALSE
       ELSE UNCHANGED << relBuf, relSent, unitFilesChanged >>
    /\ Continue
    /\ UNCHANGED << busVars, reloadState, lookup, registry, slot, mu,
                    callerVars, updBuf, errBuf, errSent >>

\* c.sendSubStateReload(); unitFilesChanged = false; continue
LoopReload ==
    /\ pc = "reload"
    /\ SendReady(reloadCh, Buf(relBuf, reloadCh), CapRel(reloadCh))
    /\ IF HasRoom(reloadCh, Buf(relBuf, reloadCh), CapRel(reloadCh))
       THEN /\ relBuf' = [relBuf EXCEPT ![reloadCh] = Append(@, TRUE)]
            /\ relSent' = [relSent EXCEPT ![reloadCh] = @ + 1]
       ELSE UNCHANGED << relBuf, relSent >>
    /\ unitFilesChanged' = FALSE
    /\ Continue
    /\ UNCHANGED << busVars, reloadState, lookup, registry, slot, mu,
                    callerVars, updBuf, errBuf, errSent >>

\* sendSubStateUpdate: Lock, then GetUnitPropertiesFromObjectPath(path)
LoopLockFetch ==
    /\ pc = "update"
    /\ mu = "free"
    /\ mu' = "loop"
    /\ \E ok \in BOOLEAN : fetchErr' = ~ok
    /\ pc' = "send"
    /\ UNCHANGED << busVars, sig, unitPath, reloadState, unitFilesChanged,
                    seen, prevReload, lookup, registry, slot, callerVars,
                    chans >>

\* the error send without the default: branch taken on a full channel
SendErrNoCap(e) ==
    IF errCh # Nil
    THEN /\ errBuf' = [errBuf EXCEPT ![errCh] = Append(@, e)]
         /\ errSent' = [errSent EXCEPT ![errCh] = @ + 1]
    ELSE UNCHANGED << errBuf, errSent >>

\* the error send of sendSubStateUpdate
SendErr(e) ==
    IF HasRoom(errCh, Buf(errBuf, errCh), CapErr(errCh))
    THEN /\ errBuf' = [errBuf EXCEPT ![errCh] = Append(@, e)]
         /\ errSent' = [errSent EXCEPT ![errCh] = @ + 1]
    ELSE UNCHANGED << errBuf, errSent >>

\* sendSubStateUpdate without the return after the error send
LoopSendNoReturn ==
    /\ pc = "send"
    /\ mu = "loop"
    /\ IF fetchErr
       THEN /\ SendErr(ErrFetch)
            /\ IF HasRoom(updateCh, Buf(updBuf, updateCh), CapUpd(updateCh))
               THEN updBuf' = [updBuf EXCEPT ![updateCh] = Append(@, unitPath)]
               ELSE UNCHANGED updBuf
       ELSE IF HasRoom(updateCh, Buf(updBuf, updateCh), CapUpd(updateCh))
       THEN /\ updBuf' = [updBuf EXCEPT ![updateCh] = Append(@, unitPath)]
            /\ UNCHANGED << errBuf, errSent >>
       ELSE /\ SendErr(ErrFull)
            /\ UNCHANGED updBuf
    /\ mu' = "free"
    /\ Continue
    /\ UNCHANGED << busVars, reloadState, unitFilesChanged, lookup, registry,
                    slot, callerVars, relBuf, relSent >>

\* sendSubStateUpdate without the inner select on a full update channel
LoopSendNoFallback ==
    /\ pc = "send"
    /\ mu = "loop"
    /\ IF fetchErr
       THEN /\ SendErr(ErrFetch)
            /\ UNCHANGED updBuf
       ELSE IF HasRoom(updateCh, Buf(updBuf, updateCh), CapUpd(updateCh))
       THEN /\ updBuf' = [updBuf EXCEPT ![updateCh] = Append(@, unitPath)]
            /\ UNCHANGED << errBuf, errSent >>
       ELSE UNCHANGED << updBuf, errBuf, errSent >>
    /\ mu' = "free"
    /\ Continue
    /\ UNCHANGED << busVars, reloadState, unitFilesChanged, lookup, registry,
                    slot, callerVars, relBuf, relSent >>

\* sendSubStateUpdate after the fetch: the selects, then the deferred Unlock
LoopSend ==
    /\ pc = "send"
    /\ mu = "loop"
    /\ IF fetchErr
       THEN /\ SendReady(errCh, Buf(errBuf, errCh), CapErr(errCh))
            /\ SendErr(ErrFetch)
            /\ UNCHANGED updBuf
       ELSE IF HasRoom(updateCh, Buf(updBuf, updateCh), CapUpd(updateCh))
       THEN /\ updBuf' = [updBuf EXCEPT ![updateCh] = Append(@, unitPath)]
            /\ UNCHANGED << errBuf, errSent >>
       ELSE /\ SendReady(updateCh, Buf(updBuf, updateCh), CapUpd(updateCh))
            /\ SendReady(errCh, Buf(errBuf, errCh), CapErr(errCh))
            /\ SendErr(ErrFull)
            /\ UNCHANGED updBuf
    /\ mu' = "free"
    /\ Continue
    /\ UNCHANGED << busVars, reloadState, unitFilesChanged, lookup, registry,
                    slot, callerVars, relBuf, relSent >>

Loop == LoopRecv \/ LoopJob \/ LoopRoute \/ LoopReload \/ LoopLockFetch \/ LoopSend

----------------------------------------------------------------------------
(* Callers *)

\* watchJob(path): register a fresh completion channel for path
watchJob ==
    /\ nextJob < MaxJobs
    /\ \E p \in JobPaths : jobs' = [jobs EXCEPT ![p] = nextJob + 1]
    /\ nextJob' = nextJob + 1
    /\ UNCHANGED << busVars, loopLocals, jobSent, slot, mu, callerVars, chans >>

\* SetSubStateSubscriber: Lock; c.subscriber.updateCh = updateCh
SetBegin ==
    /\ cpc = "idle"
    /\ mu = "free"
    /\ \E s \in Subs : carg' = s /\ updateCh' = s
    /\ mu' = "caller"
    /\ cpc' = "setErr"
    /\ UNCHANGED << busVars, loopLocals, registry, errCh, reloadCh, chans >>

\* c.subscriber.errCh = errCh
SetErr ==
    /\ cpc = "setErr"
    /\ errCh' = carg
    /\ cpc' = "setReload"
    /\ UNCHANGED << busVars, loopLocals, registry, updateCh, reloadCh, mu,
                    carg, chans >>

\* c.subscriber.reloadCh = reloadCh; Unlock
SetEnd ==
    /\ cpc = "setReload"
    /\ reloadCh' = carg
    /\ mu' = "free"
    /\ cpc' = "idle"
    /\ carg' = Nil
    /\ UNCHANGED << busVars, loopLocals, registry, updateCh, errCh, chans >>

\* RemoveSubStateSubscriber: Lock; c.subscriber.updateCh = nil
RemoveBegin ==
    /\ cpc = "idle"
    /\ mu = "free"
    /\ updateCh' = Nil
    /\ mu' = "caller"
    /\ cpc' = "rmErr"
    /\ UNCHANGED << busVars, loopLocals, registry, errCh, reloadCh, carg, chans >>

\* c.subscriber.errCh = nil; Unlock
RemoveEnd ==
    /\ cpc = "rmErr"
    /\ errCh' = Nil
    /\ mu' = "free"
    /\ cpc' = "idle"
    /\ UNCHANGED << busVars, loopLocals, registry, updateCh, reloadCh, carg, chans >>

Caller == SetBegin \/ SetErr \/ SetEnd \/ RemoveBegin \/ RemoveEnd

----------------------------------------------------------------------------
(* Consumers: the subscriber receives from its channels *)

RecvUpdate ==
    /\ \E s \in Subs : /\ updBuf[s] # << >>
                       /\ updBuf' = [updBuf EXCEPT ![s] = Tail(@)]
    /\ UNCHANGED << busVars, loopLocals, registry, slot, mu, callerVars,
                    errBuf, relBuf, errSent, relSent >>

RecvErr ==
    /\ \E s \in Subs : /\ errBuf[s] # << >>
                       /\ errBuf' = [errBuf EXCEPT ![s] = Tail(@)]
    /\ UNCHANGED << busVars, loopLocals, registry, slot, mu, callerVars,
                    updBuf, relBuf, errSent, relSent >>

RecvReload ==
    /\ \E s \in Subs : /\ relBuf[s] # << >>
                       /\ relBuf' = [relBuf EXCEPT ![s] = Tail(@)]
    /\ UNCHANGED << busVars, loopLocals, registry, slot, mu, callerVars,
                    updBuf, errBuf, errSent, relSent >>

Consumer == RecvUpdate \/ RecvErr \/ RecvReload

----------------------------------------------------------------------------
(* Specifications *)

Next == Emit \/ Loop \/ watchJob \/ Caller \/ Consumer

Spec == Init /\ [][Next]_vars

NextSeq == Feed \/ Close \/ Loop \/ Consumer

SpecSeq == InitSeq /\ [][NextSeq]_vars

\* the goroutine runs, sync.Mutex hands the lock to a waiting goroutine, and
\* a caller inside SetSubStateSubscriber or RemoveSubStateSubscriber returns;
\* nothing is assumed of the bus, of new calls or of the consumers
Fairness ==
    /\ WF_vars(Loop)
    /\ SF_vars(LoopLockFetch)
    /\ WF_vars(SetErr \/ SetEnd \/ RemoveEnd)

FairSpec == Spec /\ Fairness

\* the goroutine runs whenever it can; nothing is assumed of the consumers
FairSeq == SpecSeq /\ WF_vars(Loop)

TypeOK ==
    /\ Len(queue) <= signalBuffer
    /\ pc \in {"recv", "job", "check", "reload", "update", "send", "done"}
    /\ mu \in {"free", "loop", "caller"}
    /\ updateCh \in Subs \cup {Nil}

----------------------------------------------------------------------------
(* Properties *)

\* a step of the dispatch goroutine out of position p
LoopStepFrom(p) == pc = p /\ pc' # p

\* notifications the goroutine has finished with
Processed == emitted - Len(queue) - (IF pc \in {"recv", "done"} THEN 0 ELSE 1)

\* the goroutine is idle and the bus has delivered all of input
SeqDone == pending = << >> /\ queue = << >> /\ pc = "recv"

TotalReloads == relSent[1] + relSent[2]

\* C1: when the loop processes a JobRemoved notification whose path has a
\* registered Job, that Job's completion channel gets the notification's
\* result, as the only value ever sent on it, and the path leaves the
\* registry; no completion channel ever gets a second value.
C1_JobResolvedExactlyOnce ==
    [][ /\ (LoopStepFrom("job") /\ sig.name = JobRemoved /\ jobs[sig.path] # Nil)
           => /\ jobSent'[jobs[sig.path]] = << sig.result >>
              /\ jobs'[sig.path] = Nil
        /\ \A c \in DOMAIN jobSent : Len(jobSent'[c]) <= 1
      ]_vars

\* the job of the notification just handled has been resolved with its result
C1_Witness ==
    /\ pc = "check"
    /\ sig.name = JobRemoved
    /\ jobs[sig.path] = Nil
    /\ nextJob = 1
    /\ jobSent[1] = << sig.result >>

\* C2: a JobRemoved notification whose path has no registered Job leaves the
\* registry and every completion channel as they are, and the loop goes on
\* with the notification (and keeps the queue) instead of stopping.
C2_UnknownJobIgnored ==
    [][ (LoopStepFrom("job") /\ sig.name = JobRemoved /\ jobs[sig.path] = Nil)
          => /\ UNCHANGED << jobs, jobSent, nextJob >>
             /\ UNCHANGED << queue, chans >>
             /\ pc' = "check"
      ]_vars

\* a JobRemoved for an unregistered path was handled while another path is
\* registered and nothing has been sent on a completion channel
C2_Witness ==
    /\ pc = "check"
    /\ sig.name = JobRemoved
    /\ jobs[sig.path] = Nil
    /\ \E p \in JobPaths : jobs[p] # Nil
    /\ \A c \in DOMAIN jobSent : jobSent[c] = << >>

SeqFilesReloadDone == << SigUnitFilesChanged, SigReloading(TRUE), SigReloading(FALSE) >>
SeqReloadDone == << SigReloading(TRUE), SigReloading(FALSE) >>
SeqFilesReloadTwiceDone ==
    << SigUnitFilesChanged, SigReloading(TRUE), SigReloading(TRUE), SigReloading(FALSE) >>

\* C3: with a subscriber and its reload channel configured, once the loop has processed
\* [UnitFilesChanged, Reloading(true), Reloading(false)] exactly one reload
\* event was sent; after [Reloading(true), Reloading(false)] none; after
\* [UnitFilesChanged, Reloading(true), Reloading(true), Reloading(false)] one.
C3_ReloadCoalescing ==
    reloadCh # Nil =>
        /\ input = SeqFilesReloadDone =>
              (TotalReloads <= 1 /\ (SeqDone => TotalReloads = 1))
        /\ input = SeqReloadDone => TotalReloads = 0
        /\ input = SeqFilesReloadTwiceDone =>
              (TotalReloads <= 1 /\ (SeqDone => TotalReloads = 1))

\* the four-notification sequence has been processed and its event received
C3_Witness ==
    /\ input = SeqFilesReloadTwiceDone
    /\ SeqDone
    /\ TotalReloads = 1
    /\ \A s \in Subs : relBuf[s] = << >>

\* C4 as stated: a reload event is sent only when a Reloading notification
\* moves reloadState from true to false while unitFilesChanged is true.
C4_EmitOnlyOnTrueToFalse ==
    [][ (relSent' # relSent)
          => /\ sig.name = Reloading
             /\ prevReload /\ ~reloadState
             /\ unitFilesChanged /\ ~unitFilesChanged'
      ]_vars

\* C4 amended: a reload event is sent only while processing a Reloading
\* notification that sets reloadState to false (whatever it was before) while
\* unitFilesChanged is true, and every emission leaves unitFilesChanged false.
C4_EmitOnlyOnReloadingFalse ==
    [][ (relSent' # relSent)
          => /\ pc = "reload"
             /\ sig.name = Reloading /\ ~sig.active
             /\ ~reloadState
             /\ unitFilesChanged /\ ~unitFilesChanged'
      ]_vars

\* Reloading(false) arrived with reloadState already false, a reload event
\* has been sent and the flags are back to idle
C4_Witness ==
    /\ input = << SigUnitFilesChanged, SigReloading(FALSE) >>
    /\ SeqDone
    /\ \E s \in Subs : relSent[s] = 1 /\ relBuf[s] = << TRUE >>
    /\ ~unitFilesChanged
    /\ ~reloadState

\* C5 as stated: subscriber 1 has an unbuffered update channel nobody
\* receives from; at most one error is ever sent on its error channel.
C5_AtMostOneError == errSent[1] <= 1

\* C5 amended: with the update channel unbuffered and never drained, the
\* error channel never holds more errors than its capacity and the errors
\* sent never exceed the notifications processed (one per notification).
C5_ErrorsBoundedByCapacity ==
    /\ updBuf[1] = << >>
    /\ \A s \in Subs : Len(errBuf[s]) <= CapErr(s)
    /\ errSent[1] + errSent[2] <= emitted - Len(queue)

\* two notifications each put an error on the drained error channel
C5_Witness ==
    /\ errSent[1] = 2
    /\ updBuf[1] = << >>

\* C6: a delivery sends only on the channels of the subscriber the loop saw
\* at its nil check of updateCh for this notification: the update or error
\* send of sendSubStateUpdate and the reload send go to that subscriber's
\* channels, also when SetSubStateSubscriber ran in between.
C6_DeliveryUsesObservedSubscriber ==
    [][ /\ LoopStepFrom("send") =>
              \A s \in Subs :
                  (updBuf'[s] # updBuf[s] \/ errBuf'[s] # errBuf[s]) => s = seen
        /\ LoopStepFrom("reload") =>
              \A s \in Subs : relBuf'[s] # relBuf[s] => s = seen
      ]_vars

\* C7: every notification put on the queue is eventually taken off it and
\* processed to the end, whatever the consumers do.
C7_EveryNotificationProcessed ==
    \A k \in 1..MaxSignals : (emitted >= k) ~> (Processed >= k)

\* both notifications were processed while the error channel tried was full
C7_Witness ==
    /\ emitted = MaxSignals
    /\ Processed = MaxSignals
    /\ errSent[1] = 1
    /\ errBuf[1] = << ErrFull >>

\* C8: after a failed fetch the loop sends nothing on an update channel,
\* puts the fetch error on the error channel if that is set and has room and
\* drops it otherwise, releases the lock and returns to the queue.
C8_FetchErrorToErrorChannel ==
    [][ (LoopStepFrom("send") /\ fetchErr)
          => /\ updBuf' = updBuf
             /\ IF errCh # Nil /\ Len(errBuf[errCh]) < CapErr(errCh)
                THEN /\ errBuf' = [errBuf EXCEPT ![errCh] = Append(@, ErrFetch)]
                     /\ errSent' = [errSent EXCEPT ![errCh] = @ + 1]
                ELSE UNCHANGED << errBuf, errSent >>
             /\ UNCHANGED << relBuf, relSent, queue >>
             /\ pc' = "recv"
             /\ mu' = "free"
      ]_vars

\* a fetch error sits on the error channel of a subscriber with an empty
\* update channel that has room
C8_Witness ==
    /\ errBuf[2] = << ErrFetch >>
    /\ updBuf[2] = << >>
    /\ pc = "recv"

\* C9: after a successful fetch, an update channel with room gets exactly
\* one update and the error channel nothing; otherwise the update channel is
\* untouched and the error channel gets one "update channel full" error if
\* it is set and has room, and nothing changes if it does not.
C9_UpdateOrChannelFullError ==
    [][ (LoopStepFrom("send") /\ ~fetchErr)
          => /\ IF updateCh # Nil /\ Len(updBuf[updateCh]) < CapUpd(updateCh)
                THEN /\ updBuf' = [updBuf EXCEPT ![updateCh] = Append(@, unitPath)]
                     /\ UNCHANGED << errBuf, errSent >>
                ELSE /\ updBuf' = updBuf
                     /\ IF errCh # Nil /\ Len(errBuf[errCh]) < CapErr(errCh)
                        THEN /\ errBuf' = [errBuf EXCEPT ![errCh] = Append(@, ErrFull)]
                             /\ errSent' = [errSent EXCEPT ![errCh] = @ + 1]
                        ELSE UNCHANGED << errBuf, errSent >>
             /\ UNCHANGED << relBuf, relSent, queue >>
             /\ pc' = "recv"
      ]_vars

\* one update was enqueued, the next found the update channel full and left
\* a "channel full" error
C9_Witness ==
    /\ Len(updBuf[2]) = 1
    /\ errBuf[2] = << ErrFull >>
    /\ pc = "recv"

\* C10: while the loop handles a notification of another name, no step of
\* it changes the registry, the reload flags, the subscriber slot or any
\* consumer channel, and it never gets to a delivery.
C10_UnknownNameChangesNothing ==
    [][ ((sig.name = OtherName \/ sig'.name = OtherName) /\ pc' # pc)
          => /\ UNCHANGED << registry, reloadState, unitFilesChanged, slot, chans >>
             /\ pc' \in {"job", "check", "recv"}
      ]_vars

\* a notification of another name is past the job step with a subscriber
\* configured, a job registered and unitFilesChanged set
C10_Witness ==
    /\ sig.name = OtherName
    /\ pc = "check"
    /\ updateCh # Nil
    /\ unitFilesChanged
    /\ \E p \in JobPaths : jobs[p] # Nil

\* C11: once ch is closed the goroutine returns, and neither the return nor
\* anything after it sends on a consumer channel.
C11_ClosedQueueTerminatesSilently ==
    /\ closed ~> (pc = "done")
    /\ [][ (pc' = "done")
             => /\ UNCHANGED << errSent, relSent >>
                /\ \A s \in Subs : /\ Len(updBuf'[s]) <= Len(updBuf[s])
                                   /\ Len(errBuf'[s]) <= Len(errBuf[s])
                                   /\ Len(relBuf'[s]) <= Len(relBuf[s])
         ]_vars

\* the goroutine has returned after the close with signals still undelivered
C11_Witness ==
    /\ closed
    /\ pc = "done"
    /\ queue = << >>
    /\ pending # << >>
    /\ emitted >= 1

\* C12: the loop handles one notification at a time in arrival order: the
\* queue holds the delivered notifications not yet received, in order, and
\* the notification in hand is the one that arrived just before them.
C12_ArrivalOrder ==
    /\ emitted - Len(queue) \in 0..Len(input)
    /\ queue = SubSeq(input, emitted - Len(queue) + 1, emitted)
    /\ pc \in {"job", "check", "reload", "update", "send"}
          => (emitted - Len(queue) >= 1 /\ sig = input[emitted - Len(queue)])
    /\ pc = "recv" => sig = NoSig

\* the third notification is in hand while the fourth waits in the queue
C12_Witness ==
    /\ Len(input) = 4
    /\ input[3] # input[4]
    /\ pc = "check"
    /\ sig = input[3]
    /\ queue = << input[4] >>

\* C13: for a JobRemoved notification the loop first resolves the job,
\* whatever the subscriber slot holds, and goes on with the same
\* notification; with a subscriber set it calls GetUnit, and when that call
\* succeeds it goes on to sendSubStateUpdate for the unit's path.
C13_JobRemovedRunsBothPipelines ==
    [][ /\ (LoopStepFrom("job") /\ sig.name = JobRemoved)
              => /\ pc' = "check" /\ sig' = sig
                 /\ jobs'[sig.path] = Nil
                 /\ jobs[sig.path] # Nil
                       => jobSent'[jobs[sig.path]] =
                             Append(jobSent[jobs[sig.path]], sig.result)
        /\ (LoopStepFrom("check") /\ sig.name = JobRemoved /\ updateCh # Nil)
              => lookup' \in {"ok", "failed"}
        /\ (LoopStepFrom("check") /\ sig.name = JobRemoved /\ lookup' = "ok")
              => /\ pc' = "update" /\ sig' = sig
                 /\ unitPath' = UnitPathOf(sig.unit)
        /\ (LoopStepFrom("update") /\ sig.name = JobRemoved)
              => pc' = "send" /\ unitPath' = unitPath
      ]_vars

\* the job of a JobRemoved notification was resolved and the update for its
\* unit has been fetched
C13_Witness ==
    /\ pc = "send"
    /\ sig.name = JobRemoved
    /\ lookup = "ok"
    /\ unitPath = UnitPathOf(sig.unit)
    /\ nextJob = 1
    /\ jobSent[1] = << sig.result >>
    /\ jobs[sig.path] = Nil

\* C14: when GetUnit fails for a JobRemoved notification the loop returns to
\* the queue at once: it sends nothing to the subscriber for this
\* notification, takes no lock and leaves the registry, with the job it has
\* just resolved, as it is.
C14_FailedLookupSkipsUpdate ==
    /\ [](lookup = "failed" => pc = "recv")
    /\ [][ (LoopStepFrom("check") /\ sig.name = JobRemoved /\ lookup' = "failed")
             => /\ pc' = "recv"
                /\ UNCHANGED << chans, registry, mu, queue >>
         ]_vars

\* the only notification so far resolved its job, its lookup failed and the
\* configured subscriber got nothing
C14_Witness ==
    /\ lookup = "failed"
    /\ pc = "recv"
    /\ emitted = 1
    /\ updateCh # Nil /\ errCh # Nil
    /\ nextJob = 1
    /\ jobSent[1] # << >>
    /\ \A s \in Subs : updBuf[s] = << >> /\ errBuf[s] = << >> /\ errSent[s] = 0

\* C15: a PropertiesChanged notification goes on to sendSubStateUpdate, for
\* its own path, exactly when updateCh is set and the first body element is
\* the Unit interface; otherwise the loop returns to the queue without a
\* fetch and without a send.
C15_PropertiesChangedNeedsUnitInterface ==
    [][ (LoopStepFrom("check") /\ sig.name = PropertiesChanged)
          => IF updateCh # Nil /\ sig.iface = UnitIface
             THEN pc' = "update" /\ unitPath' = sig.path /\ sig' = sig
             ELSE pc' = "recv" /\ UNCHANGED << chans, mu >>
      ]_vars

\* the update for a PropertiesChanged notification of the Unit interface
\* has been fetched for the notification's own path
C15_Witness ==
    /\ pc = "send"
    /\ sig.name = PropertiesChanged
    /\ sig.iface = UnitIface
    /\ unitPath = sig.path
    /\ ~fetchErr

\* C16: the loop records every UnitFilesChanged in unitFilesChanged and the
\* value of every Reloading in reloadState, whatever the subscriber slot
\* holds.
C16_ReloadStateAlwaysAdvances ==
    [][ /\ (LoopStepFrom("check") /\ sig.name = UnitFilesChanged)
              => unitFilesChanged'
        /\ (LoopStepFrom("check") /\ sig.name = Reloading)
              => reloadState' = sig.active
      ]_vars

\* C17: while the loop handles a Reloading or UnitFilesChanged notification
\* it never gets to sendSubStateUpdate (no lock, no fetch, nothing on an
\* update or error channel), and it sends at most one reload event, as the
\* last step of the iteration.
C17_ReloadSignalsNeverUpdate ==
    [][ ((sig.name = Reloading \/ sig.name = UnitFilesChanged) /\ pc' # pc)
          => /\ UNCHANGED << updBuf, errBuf, errSent, mu >>
             /\ pc' \in {"check", "reload", "recv"}
             /\ \A s \in Subs : relSent'[s] \in {relSent[s], relSent[s] + 1}
             /\ relSent' # relSent => (pc = "reload" /\ pc' = "recv")
      ]_vars

\* a Reloading(true) notification is through the switch with a subscriber
\* set and nothing was sent
C17_Witness ==
    /\ pc = "recv"
    /\ reloadState
    /\ updateCh # Nil
    /\ emitted - Len(queue) >= 1
    /\ \A s \in Subs : updBuf[s] = << >> /\ errBuf[s] = << >> /\ relBuf[s] = << >>

\* C18: every step of the loop that reads a field of the subscriber slot
\* (the nil check of updateCh, the reload send, the update and error sends)
\* is taken while the loop holds the slot's lock.
C18_SlotReadUnderLock ==
    [][ (LoopStepFrom("check") \/ LoopStepFrom("reload") \/ LoopStepFrom("send"))
          => mu = "loop"
      ]_vars

\* C19: while the slot is cleared (updateCh and errCh nil, no configuring
\* call running) no step of the loop sends on a consumer channel.
C19_NoSendWhileCleared ==
    [][ (updateCh = Nil /\ errCh = Nil /\ cpc = "idle" /\ pc' # pc)
          => UNCHANGED chans
      ]_vars

\* UnitFilesChanged notifications among the first k of a sequence
FilesChangedIn(seq, k) ==
    Cardinality({i \in 1..k : seq[i] = SigUnitFilesChanged})

\* C20: no more reload events are sent than UnitFilesChanged notifications
\* were received; the reload step resets unitFilesChanged whether or not the
\* event could be sent (it is sent exactly when reloadCh is set and has
\* room); only UnitFilesChanged sets the flag again, and a Reloading that
\* finds it false sends nothing.
C20_DroppedReloadNotMadeUp ==
    /\ [](TotalReloads <= FilesChangedIn(input, emitted - Len(queue)))
    /\ [][ /\ LoopStepFrom("reload")
                => /\ ~unitFilesChanged'
                   /\ IF reloadCh # Nil /\ Len(relBuf[reloadCh]) < CapRel(reloadCh)
                      THEN relSent'[reloadCh] = relSent[reloadCh] + 1
                      ELSE UNCHANGED << relBuf, relSent >>
           /\ (~unitFilesChanged /\ unitFilesChanged')
                => sig.name = UnitFilesChanged
           /\ (LoopStepFrom("check") /\ sig.name = Reloading /\ ~unitFilesChanged)
                => pc' = "recv" /\ UNCHANGED << relBuf, relSent >>
         ]_vars

\* the second reload event found the reload channel full and was dropped,
\* and the flag is reset
C20_Witness ==
    /\ input = << SigUnitFilesChanged, SigReloading(FALSE),
                  SigUnitFilesChanged, SigReloading(FALSE) >>
    /\ SeqDone
    /\ TotalReloads = 1
    /\ \E s \in Subs : relBuf[s] = << TRUE >>
    /\ ~unitFilesChanged

====
